---- MODULE Spec2Model ----
(***************************************************************************)
(* A model of down2earth's rate limiter (utils/async_utils.py) and of its  *)
(* cyclic fetch mechanism (core/mechanisms/fetch.py, core/models/          *)
(* request.py, core/network/fetcher.py).                                   *)
(*                                                                         *)
(* Time is counted in ticks.  The eviction task sleeps 1/rate_limit        *)
(* seconds, which is TicksPerInterval ticks, so one second is              *)
(* rate_limit * TicksPerInterval ticks.                                    *)
(***************************************************************************)
EXTENDS Integers, Sequences, FiniteSets, TLC

\* ---------------------------------------------------------------- bounds
MaxRateLimit == 2
MaxConcurrencyLimit == 2
NumCallers == 3
TicksPerInterval == 2
MaxElapsed == 4
MaxAdmissions == 3
MaxMaxAttempts == 3
MaxCloses == 2

\* the least limit __init__ accepts: "rate_limit < 1" is refused
MinLimit == 1

Callers == 1..NumCallers

\* Optional values: None is the empty sequence, Some(x) a one-element one.
None == << >>
Some(x) == << x >>

VARIABLES
    \* TokenBucketRateLimiter
    rate_limit,             \* self.rate_limit
    concurrency_limit,      \* the Semaphore's initial value
    tokens_queue,           \* self.tokens_queue, an asyncio.Queue(rate_limit)
    semaphore,              \* self.semaphore's free slots
    last_consumption_time,  \* _consume_tokens' local
    wake_at,                \* the time the eviction task's sleep ends
    now,                    \* time.monotonic()
    start_time,             \* the clock's reading at construction
    pc,                     \* where each caller of throttle() is
    admit_times,            \* the time of every token insertion so far
    consumer_task,          \* self.tokens_consumer_task: "none" before it is
                            \* created, then "running", then "cancelled", or
                            \* "failed" when it ended with an exception
    init_error,             \* what __init__ raised, if it raised
    close_calls,            \* calls of TokenBucketRateLimiter.close() so far
    close_raised,           \* whether one of them raised
    driver_close_calls,     \* calls of GentleMechanism.close() so far
    session_close_calls,    \* calls of the ClientSession's close() so far
    closed_at               \* the numbers of tokens queued and of insertions
                            \* made when close() was first called

VARIABLES
    \* GentleMechanism and the request it is fetching
    max_attempts,           \* self._max_attempts
    stop_status_codes,      \* self._stop_status_codes
    retry_status_codes,     \* self._retry_status_codes
    stop_exceptions,        \* self._stop_exceptions
    retry_exceptions,       \* self._retry_exceptions
    request_attempt,        \* request._attempt
    start_attempt,          \* request._attempt when fetch was called
    fpc,                    \* where fetch is
    loop_attempt,           \* the for loop's variable `attempt`
    held,                   \* concurrency slots the request holds
    sends,                  \* physical sends so far
    outcomes,               \* the outcome of every send so far
    slept,                  \* the delays fetch has slept so far
    response,               \* the local `response`
    exception,              \* the local `e`
    result                  \* how the call ended

lifeVars == << consumer_task, init_error, close_calls, close_raised,
               driver_close_calls, session_close_calls, closed_at >>

limiterVars == << rate_limit, concurrency_limit, tokens_queue, semaphore,
                  last_consumption_time, wake_at, now, start_time, pc,
                  admit_times, lifeVars >>

configVars == << max_attempts, stop_status_codes, retry_status_codes,
                 stop_exceptions, retry_exceptions >>

fetchVars == << configVars, request_attempt, start_attempt, fpc, loop_attempt,
                held, sends, outcomes, slept, response, exception, result >>

vars == << limiterVars, fetchVars >>

\* ------------------------------------------------------- the rate limiter

\* consumption_rate = 1 / self.rate_limit, in ticks
consumption_rate == TicksPerInterval

\* one second, in ticks
Second == rate_limit * TicksPerInterval

Min(a, b) == IF a <= b THEN a ELSE b

InCritical == { c \in Callers : pc[c] = "critical" }

\* InitLimiter with last_consumption_time starting at the time of construction.
InitLimiter_LastAtStart ==
    /\ rate_limit \in 1..MaxRateLimit
    /\ concurrency_limit \in 1..MaxConcurrencyLimit
    /\ tokens_queue = << >>
    /\ semaphore = concurrency_limit
    /\ start_time \in { 0, rate_limit * TicksPerInterval }
    /\ last_consumption_time = start_time
    /\ now = start_time
    /\ wake_at = start_time
    /\ pc = [c \in Callers |-> "idle"]
    /\ admit_times = << >>
    /\ consumer_task = "running"
    /\ init_error = None
    /\ close_calls = 0
    /\ close_raised = FALSE
    /\ driver_close_calls = 0
    /\ session_close_calls = 0
    /\ closed_at = None

\* TokenBucketRateLimiter.__init__: the limits pass the checks, the queue is
\* empty, the eviction task is created and ready to run, nobody has called.
InitLimiter ==
    /\ rate_limit \in 1..MaxRateLimit
    /\ concurrency_limit \in 1..MaxConcurrencyLimit
    /\ tokens_queue = << >>
    /\ semaphore = concurrency_limit
    /\ last_consumption_time = 0
    /\ start_time \in { 0, rate_limit * TicksPerInterval }
    /\ now = start_time
    /\ wake_at = start_time
    /\ pc = [c \in Callers |-> "idle"]
    /\ admit_times = << >>
    /\ consumer_task = "running"
    /\ init_error = None
    /\ close_calls = 0
    /\ close_raised = FALSE
    /\ driver_close_calls = 0
    /\ session_close_calls = 0
    /\ closed_at = None

\* A caller enters `async with limiter.throttle()`.
ThrottleCall(c) ==
    /\ pc[c] = "idle"
    /\ Len(admit_times)
         + Cardinality({ d \in Callers : pc[d] \in {"acquire", "add_token"} })
       < MaxAdmissions
    /\ pc' = [pc EXCEPT ![c] = "acquire"]
    /\ UNCHANGED << rate_limit, concurrency_limit, tokens_queue, semaphore,
                    last_consumption_time, wake_at, now, start_time,
                    admit_times, lifeVars, fetchVars >>

\* SemaphoreAcquire that leaves the slot free until the token is in.
SemaphoreAcquire_AfterToken(c) ==
    /\ pc[c] = "acquire"
    /\ semaphore > 0
    /\ pc' = [pc EXCEPT ![c] = "add_token"]
    /\ UNCHANGED << rate_limit, concurrency_limit, tokens_queue, semaphore,
                    last_consumption_time, wake_at, now, start_time,
                    admit_times, lifeVars, fetchVars >>

\* SemaphoreAcquire that does not wait for a free slot.
SemaphoreAcquire_NoWait(c) ==
    /\ pc[c] = "acquire"
    /\ semaphore' = semaphore - 1
    /\ pc' = [pc EXCEPT ![c] = "add_token"]
    /\ UNCHANGED << rate_limit, concurrency_limit, tokens_queue,
                    last_consumption_time, wake_at, now, start_time,
                    admit_times, lifeVars, fetchVars >>

\* await self.semaphore.acquire(): suspended while no slot is free.
SemaphoreAcquire(c) ==
    /\ pc[c] = "acquire"
    /\ semaphore > 0
    /\ semaphore' = semaphore - 1
    /\ pc' = [pc EXCEPT ![c] = "add_token"]
    /\ UNCHANGED << rate_limit, concurrency_limit, tokens_queue,
                    last_consumption_time, wake_at, now, start_time,
                    admit_times, lifeVars, fetchVars >>

\* await self._add_token(): tokens_queue.put(1), suspended while the queue is
\* full; then the caller is at the yield.
AddToken(c) ==
    /\ pc[c] = "add_token"
    /\ Len(tokens_queue) < rate_limit
    /\ tokens_queue' = Append(tokens_queue, 1)
    /\ admit_times' = Append(admit_times, now)
    /\ pc' = [pc EXCEPT ![c] = "critical"]
    /\ UNCHANGED << rate_limit, concurrency_limit, semaphore,
                    last_consumption_time, wake_at, now, start_time,
                    lifeVars, fetchVars >>

\* The caller's task is cancelled while it waits for a slot:
\* Semaphore.acquire raises CancelledError and takes no slot.
CancelAcquire(c) ==
    /\ pc[c] = "acquire"
    /\ semaphore = 0
    /\ pc' = [pc EXCEPT ![c] = "idle"]
    /\ UNCHANGED << rate_limit, concurrency_limit, tokens_queue, semaphore,
                    last_consumption_time, wake_at, now, start_time,
                    admit_times, lifeVars, fetchVars >>

\* The caller's task is cancelled while tokens_queue.put(1) waits on the full
\* queue.  throttle() has the slot and has not entered its try: nothing
\* releases it.
CancelAddToken(c) ==
    /\ pc[c] = "add_token"
    /\ Len(tokens_queue) = rate_limit
    /\ pc' = [pc EXCEPT ![c] = "idle"]
    /\ UNCHANGED << rate_limit, concurrency_limit, tokens_queue, semaphore,
                    last_consumption_time, wake_at, now, start_time,
                    admit_times, lifeVars, fetchVars >>

\* ThrottleExit that also takes the caller's token back out of the queue.
ThrottleExit_TakesToken(c) ==
    /\ pc[c] = "critical"
    /\ semaphore' = semaphore + 1
    /\ tokens_queue' = IF tokens_queue = << >> THEN tokens_queue
                                               ELSE Tail(tokens_queue)
    /\ pc' = [pc EXCEPT ![c] = "idle"]
    /\ UNCHANGED << rate_limit, concurrency_limit,
                    last_consumption_time, wake_at, now, start_time,
                    admit_times, lifeVars, fetchVars >>

\* The body of the `async with` ends (returns, raises or is cancelled):
\* finally release.
ThrottleExit(c) ==
    /\ pc[c] = "critical"
    /\ semaphore' = semaphore + 1
    /\ pc' = [pc EXCEPT ![c] = "idle"]
    /\ UNCHANGED << rate_limit, concurrency_limit, tokens_queue,
                    last_consumption_time, wake_at, now, start_time,
                    admit_times, lifeVars, fetchVars >>

\* GetTokensAmountToConsume that rounds the quotient up.
GetTokensAmountToConsume_Ceil(rate, current_consumption_time, last_time, total_tokens) ==
    LET time_from_last_consumption == current_consumption_time - last_time
        calculated_tokens_to_consume ==
            (time_from_last_consumption + rate - 1) \div rate
    IN  Min(total_tokens, calculated_tokens_to_consume)

\* GetTokensAmountToConsume without the min().
GetTokensAmountToConsume_NoMin(rate, current_consumption_time, last_time, total_tokens) ==
    LET time_from_last_consumption == current_consumption_time - last_time
        calculated_tokens_to_consume == time_from_last_consumption \div rate
    IN  calculated_tokens_to_consume

\* _get_tokens_amount_to_consume
GetTokensAmountToConsume(rate, current_consumption_time, last_time, total_tokens) ==
    LET time_from_last_consumption == current_consumption_time - last_time
        calculated_tokens_to_consume == time_from_last_consumption \div rate
    IN  Min(total_tokens, calculated_tokens_to_consume)

\* One turn of _consume_tokens' loop, run when its sleep has ended.  The size
\* is read and the tokens are taken with get_nowait() without a suspension
\* in between; a get_nowait() on the emptied queue raises QueueEmpty, which
\* ends the task.
ConsumeTokens ==
    /\ consumer_task = "running"
    /\ now >= wake_at
    /\ IF tokens_queue = << >>
       THEN /\ wake_at' = now + consumption_rate
            /\ UNCHANGED << tokens_queue, last_consumption_time, consumer_task >>
       ELSE LET total_tokens == Len(tokens_queue)
                tokens_to_consume ==
                    GetTokensAmountToConsume(consumption_rate, now,
                                             last_consumption_time, total_tokens)
                removed == IF tokens_to_consume > 0 THEN tokens_to_consume ELSE 0
            IN  IF removed > total_tokens
                THEN /\ tokens_queue' = << >>
                     /\ consumer_task' = "failed"
                     /\ UNCHANGED << last_consumption_time, wake_at >>
                ELSE /\ tokens_queue' = SubSeq(tokens_queue, removed + 1, total_tokens)
                     /\ last_consumption_time' = now
                     /\ wake_at' = now + consumption_rate
                     /\ UNCHANGED consumer_task
    /\ UNCHANGED << rate_limit, concurrency_limit, semaphore, now, start_time,
                    pc, admit_times, init_error, close_calls, close_raised,
                    driver_close_calls, session_close_calls, closed_at, fetchVars >>

\* The clock advances.
Tick ==
    /\ now - start_time < MaxElapsed
    /\ now' = now + 1
    /\ UNCHANGED << rate_limit, concurrency_limit, tokens_queue, semaphore,
                    last_consumption_time, wake_at, start_time, pc,
                    admit_times, lifeVars, fetchVars >>

\* Before TokenBucketRateLimiter(rate_limit, concurrency_limit) is called:
\* rate_limit and concurrency_limit hold the arguments, which may be below
\* the least limit; there is no queue, no task, no semaphore and no caller.
InitUnbuilt ==
    /\ rate_limit \in (MinLimit - 2)..MinLimit
    /\ concurrency_limit \in (MinLimit - 2)..MinLimit
    /\ tokens_queue = << >>
    /\ semaphore = 0
    /\ last_consumption_time = 0
    /\ start_time \in { 0, MinLimit * TicksPerInterval }
    /\ now = start_time
    /\ wake_at = start_time
    /\ pc = [c \in Callers |-> "none"]
    /\ admit_times = << >>
    /\ consumer_task = "none"
    /\ init_error = None
    /\ close_calls = 0
    /\ close_raised = FALSE
    /\ driver_close_calls = 0
    /\ session_close_calls = 0
    /\ closed_at = None

\* Construct with the eviction task created before the limits are looked at.
Construct_TaskFirst ==
    /\ consumer_task = "none"
    /\ init_error = None
    /\ consumer_task' = "running"
    /\ wake_at' = now
    /\ IF rate_limit < MinLimit \/ concurrency_limit < MinLimit
       THEN /\ init_error' = Some("ValueError")
            /\ UNCHANGED << tokens_queue, semaphore, last_consumption_time, pc >>
       ELSE /\ tokens_queue' = << >>
            /\ semaphore' = concurrency_limit
            /\ last_consumption_time' = 0
            /\ pc' = [c \in Callers |-> "idle"]
            /\ UNCHANGED init_error
    /\ UNCHANGED << rate_limit, concurrency_limit, now, start_time, admit_times,
                    close_calls, close_raised, driver_close_calls,
                    session_close_calls, closed_at, fetchVars >>

\* TokenBucketRateLimiter.__init__: a rate limit or a concurrency limit below
\* the least one raises ValueError before anything is created; otherwise the
\* queue, the eviction task (ready to run) and the semaphore are created and
\* callers may come.
Construct ==
    /\ consumer_task = "none"
    /\ init_error = None
    /\ IF rate_limit < MinLimit \/ concurrency_limit < MinLimit
       THEN /\ init_error' = Some("ValueError")
            /\ UNCHANGED << tokens_queue, semaphore, last_consumption_time,
                            wake_at, pc, consumer_task >>
       ELSE /\ tokens_queue' = << >>
            /\ consumer_task' = "running"
            /\ wake_at' = now
            /\ semaphore' = concurrency_limit
            /\ last_consumption_time' = 0
            /\ pc' = [c \in Callers |-> "idle"]
            /\ UNCHANGED init_error
    /\ UNCHANGED << rate_limit, concurrency_limit, now, start_time, admit_times,
                    close_calls, close_raised, driver_close_calls,
                    session_close_calls, closed_at, fetchVars >>

\* The eviction task is cancelled from outside (a shutdown that cancels every
\* task): CancelledError is thrown into its sleep and re-raised.
ConsumerTaskCancelled ==
    /\ consumer_task = "running"
    /\ consumer_task' = "cancelled"
    /\ UNCHANGED << rate_limit, concurrency_limit, tokens_queue, semaphore,
                    last_consumption_time, wake_at, now, start_time, pc,
                    admit_times, init_error, close_calls, close_raised,
                    driver_close_calls, session_close_calls, closed_at, fetchVars >>

\* What close() finds when it is called: recorded at the first call.
ClosedAt ==
    IF closed_at = None
    THEN Some([tokens |-> Len(tokens_queue), insertions |-> Len(admit_times)])
    ELSE closed_at

\* LimiterClose that awaits nothing and leaves the task as it is.
LimiterClose_TaskLeft ==
    /\ close_calls' = close_calls + 1
    /\ closed_at' = ClosedAt
    /\ UNCHANGED << consumer_task, close_raised >>

\* LimiterClose without the "except asyncio.CancelledError: pass".
LimiterClose_NoCatch ==
    /\ close_calls' = close_calls + 1
    /\ closed_at' = ClosedAt
    /\ IF consumer_task = "running"
       THEN /\ consumer_task' = "cancelled"
            /\ close_raised' = TRUE
       ELSE IF consumer_task = "failed"
       THEN /\ close_raised' = TRUE
            /\ UNCHANGED consumer_task
       ELSE UNCHANGED << consumer_task, close_raised >>

\* The body of TokenBucketRateLimiter.close(): a task that is there and not
\* cancelled is cancelled and awaited.  The CancelledError that the await of
\* a running task raises is passed over; the exception a task has ended with
\* is raised again.  Otherwise nothing is done.
LimiterClose ==
    /\ close_calls' = close_calls + 1
    /\ closed_at' = ClosedAt
    /\ IF consumer_task = "running"
       THEN /\ consumer_task' = "cancelled"
            /\ UNCHANGED close_raised
       ELSE IF consumer_task = "failed"
       THEN /\ close_raised' = TRUE
            /\ UNCHANGED consumer_task
       ELSE UNCHANGED << consumer_task, close_raised >>

\* await limiter.close()
Close ==
    /\ consumer_task # "none"
    /\ close_calls < MaxCloses
    /\ LimiterClose
    /\ UNCHANGED << rate_limit, concurrency_limit, tokens_queue, semaphore,
                    last_consumption_time, wake_at, now, start_time, pc,
                    admit_times, init_error, driver_close_calls,
                    session_close_calls, fetchVars >>

\* DriverClose that closes the session only.
DriverClose_SessionOnly ==
    /\ consumer_task # "none"
    /\ close_calls < MaxCloses
    /\ driver_close_calls' = driver_close_calls + 1
    /\ session_close_calls' = session_close_calls + 1
    /\ UNCHANGED << rate_limit, concurrency_limit, tokens_queue, semaphore,
                    last_consumption_time, wake_at, now, start_time, pc,
                    admit_times, init_error, consumer_task, close_calls,
                    close_raised, closed_at, fetchVars >>

\* await mechanism.close(): GentleMechanism.close awaits the fetcher's close,
\* RateLimitedFetcher.close awaits the ClientSession's close(), which closes
\* the session if it is open and raises nothing, and then the limiter's.
DriverClose ==
    /\ consumer_task # "none"
    /\ close_calls < MaxCloses
    /\ driver_close_calls' = driver_close_calls + 1
    /\ session_close_calls' = session_close_calls + 1
    /\ LimiterClose
    /\ UNCHANGED << rate_limit, concurrency_limit, tokens_queue, semaphore,
                    last_consumption_time, wake_at, now, start_time, pc,
                    admit_times, init_error, fetchVars >>

NextLimiter ==
    \/ \E c \in Callers : ThrottleCall(c)
    \/ \E c \in Callers : SemaphoreAcquire(c)
    \/ \E c \in Callers : AddToken(c)
    \/ \E c \in Callers : CancelAcquire(c)
    \/ \E c \in Callers : CancelAddToken(c)
    \/ \E c \in Callers : ThrottleExit(c)
    \/ ConsumeTokens
    \/ Tick

\* No limiter is under observation: one that admits at once, left alone.
LimiterAside ==
    /\ rate_limit = 1
    /\ concurrency_limit = 1
    /\ tokens_queue = << >>
    /\ semaphore = 1
    /\ last_consumption_time = 0
    /\ start_time = 0
    /\ now = 0
    /\ wake_at = 0
    /\ pc = [c \in Callers |-> "idle"]
    /\ admit_times = << >>
    /\ consumer_task = "running"
    /\ init_error = None
    /\ close_calls = 0
    /\ close_raised = FALSE
    /\ driver_close_calls = 0
    /\ session_close_calls = 0
    /\ closed_at = None

\* ------------------------------------------------- the fetch mechanism

\* core/constants.py
DEFAULT_RETRY_STATUS_CODES == { 500, 502, 503, 504 }

DEFAULT_STOP_STATUS_CODES ==
    { 400, 401, 402, 403, 404, 405, 406, 407, 412, 413, 411, 410, 409, 415,
      501, 505, 507, 508, 510, 511 }

DEFAULT_RETRY_EXCEPTIONS == { "ServerTimeoutError" }

DEFAULT_STOP_EXCEPTIONS ==
    { "ClientOSError", "ClientSSLError", "ClientHttpProxyError",
      "ClientConnectorCertificateError", "ClientProxyConnectionError",
      "ContentTypeError", "TooManyRedirects" }

\* The status codes and the exception types the transport answers with here.
StatusCodes == { 199, 200, 299, 300, 404, 418, 503 }

ExceptionTypes == { "ServerTimeoutError", "ClientOSError", "ClientPayloadError" }

\* The rule sets a mechanism is built with: the defaults, or the caller's own.
StopStatusRuleSets == (SUBSET { 200, 404, 503 }) \cup { DEFAULT_STOP_STATUS_CODES }

RetryStatusRuleSets == (SUBSET { 200, 404, 503 }) \cup { DEFAULT_RETRY_STATUS_CODES }

StopExceptionRuleSets ==
    { DEFAULT_STOP_EXCEPTIONS, DEFAULT_STOP_EXCEPTIONS \cup { "ServerTimeoutError" } }

RetryExceptionRuleSets ==
    { DEFAULT_RETRY_EXCEPTIONS, DEFAULT_RETRY_EXCEPTIONS \cup { "ClientOSError" } }

\* ExponentialTimeRetry.__init__'s first_sleep and exponent
first_sleep_time == 1

exponent == 2

\* A request whose attempt counter starts at zero.
InitialAttempt_Zero == 1 - 1

\* RestRequest.__init__: self._attempt = 1
InitialAttempt == 1

\* NextAttempt that counts a send twice.
NextAttempt_Double(attempt) == attempt + 2

\* RestRequest.next_attempt
NextAttempt(attempt) == attempt + 1

\* ExponentialTimeRetry.get_sleep_time
GetSleepTime(attempt, exc) ==
    IF exc = Some("ServerTimeoutError")
    THEN first_sleep_time * exponent ^ attempt
    ELSE first_sleep_time

\* How a call ends: it returns a value, or it raises an error.
NoResult ==
    [ kind |-> "none", error |-> "", message |-> "", status |-> None,
      exception |-> None, value |-> None ]

Returned(v) ==
    [ kind |-> "return", error |-> "", message |-> "", status |-> None,
      exception |-> None, value |-> v ]

\* errors/fetching_errors.py: FetchMechanismFailed(message, status, exception)
FetchMechanismFailed(msg, status, exc) ==
    [ kind |-> "raise", error |-> "FetchMechanismFailed", message |-> msg,
      status |-> status, exception |-> exc, value |-> None ]

\* response.status of a response that is None
AttributeError ==
    [ kind |-> "raise", error |-> "AttributeError", message |-> "",
      status |-> None, exception |-> None, value |-> None ]

\* asyncio.CancelledError thrown into the caller's task at an await.  It is a
\* BaseException: the driver's "except Exception" does not catch it.
CancelledError ==
    [ kind |-> "raise", error |-> "CancelledError", message |-> "",
      status |-> None, exception |-> None, value |-> None ]

\* Is2xx with the lower end left out.
Is2xx_Exclusive(status_code) == 200 < status_code /\ status_code < 300

Is2xx(status_code) == 200 <= status_code /\ status_code < 300

\* OnCycleState with the retry status codes looked up before the stop ones.
OnCycleState_RetryFirst(attempt, resp, exc) ==
    IF resp # None /\ Is2xx(resp[1])
    THEN Returned(None)
    ELSE IF resp # None /\ resp[1] \notin retry_status_codes
                       /\ resp[1] \in stop_status_codes
    THEN FetchMechanismFailed("Stop status codes are hit", resp, exc)
    ELSE IF resp # None /\ resp[1] \notin retry_status_codes
    THEN FetchMechanismFailed("Status code not in retry status codes", resp, exc)
    ELSE IF exc # None /\ exc[1] \in stop_exceptions
    THEN FetchMechanismFailed("Stop exceptions are hit", None, exc)
    ELSE IF exc # None /\ exc[1] \notin retry_exceptions
    THEN FetchMechanismFailed("Exception type not in retry exceptions", None, exc)
    ELSE IF attempt > max_attempts
    THEN IF resp = None
         THEN AttributeError
         ELSE FetchMechanismFailed("Maximum attempts reached", resp, exc)
    ELSE Returned(None)

\* GentleMechanism.on_cycle_state(request, response, exception): Returned(None)
\* when it returns, the error when it raises.
OnCycleState(attempt, resp, exc) ==
    IF resp # None /\ Is2xx(resp[1])
    THEN Returned(None)
    ELSE IF resp # None /\ resp[1] \in stop_status_codes
    THEN FetchMechanismFailed("Stop status codes are hit", resp, exc)
    ELSE IF resp # None /\ resp[1] \notin retry_status_codes
    THEN FetchMechanismFailed("Status code not in retry status codes", resp, exc)
    ELSE IF exc # None /\ exc[1] \in stop_exceptions
    THEN FetchMechanismFailed("Stop exceptions are hit", None, exc)
    ELSE IF exc # None /\ exc[1] \notin retry_exceptions
    THEN FetchMechanismFailed("Exception type not in retry exceptions", None, exc)
    ELSE IF attempt > max_attempts
    THEN IF resp = None
         THEN AttributeError
         ELSE FetchMechanismFailed("Maximum attempts reached", resp, exc)
    ELSE Returned(None)

\* GentleMechanism.__init__: the attempt budget and the rule sets.
InitConfig ==
    /\ max_attempts \in 1..MaxMaxAttempts
    /\ stop_status_codes \in StopStatusRuleSets
    /\ retry_status_codes \in RetryStatusRuleSets
    /\ stop_exceptions \in StopExceptionRuleSets
    /\ retry_exceptions \in RetryExceptionRuleSets

\* A mechanism and a request, new or used by earlier fetches; no call yet.
InitFetch ==
    /\ InitConfig
    /\ request_attempt \in InitialAttempt..(max_attempts + 1)
    /\ start_attempt = request_attempt
    /\ fpc = "idle"
    /\ loop_attempt = 0
    /\ held = 0
    /\ sends = 0
    /\ outcomes = << >>
    /\ slept = << >>
    /\ response = None
    /\ exception = None
    /\ result = NoResult

\* range(request.attempt, self._max_attempts + 1)'s stop
RangeStop == max_attempts + 1

\* GentleMechanism.fetch is called: the range is evaluated once.
Fetch ==
    /\ fpc = "idle"
    /\ loop_attempt' = request_attempt
    /\ fpc' = "for"
    /\ UNCHANGED << configVars, request_attempt, start_attempt, held, sends,
                    outcomes, slept, response, exception, result, limiterVars >>

\* The head of the for loop: the next turn, or the end of the range, after
\* which fetch's body ends and the call returns None.
ForNext ==
    /\ fpc = "for"
    /\ IF loop_attempt < RangeStop
       THEN /\ fpc' = "throttle"
            /\ UNCHANGED result
       ELSE /\ fpc' = "done"
            /\ result' = Returned(None)
    /\ UNCHANGED << configVars, request_attempt, start_attempt, loop_attempt,
                    held, sends, outcomes, slept, response, exception,
                    limiterVars >>

\* RateLimitedFetcher.fetch: `async with self._rate_limiter.throttle()` admits
\* the request, which now holds a concurrency slot.
Throttle ==
    /\ fpc = "throttle"
    /\ held' = held + 1
    /\ fpc' = "request"
    /\ UNCHANGED << configVars, request_attempt, start_attempt, loop_attempt,
                    sends, outcomes, slept, response, exception, result,
                    limiterVars >>

\* The caller's task is cancelled inside throttle(), before the yield: while
\* it waits for a slot, and then it holds none, or while it waits to put its
\* token, and then the slot it took stays taken (throttle() has not entered
\* its try).  CancelledError passes through the driver's "except Exception".
ThrottleCancelled(slot_taken) ==
    /\ fpc = "throttle"
    /\ held' = IF slot_taken THEN held + 1 ELSE held
    /\ result' = CancelledError
    /\ fpc' = "done"
    /\ UNCHANGED << configVars, request_attempt, start_attempt, loop_attempt,
                    sends, outcomes, slept, response, exception, limiterVars >>

\* RestRequest.fetch up to its await: the call is built, next_attempt() counts
\* it, and the request goes out.
RequestFetch ==
    /\ fpc = "request"
    /\ request_attempt' = NextAttempt(request_attempt)
    /\ sends' = sends + 1
    /\ fpc' = "await"
    /\ UNCHANGED << configVars, start_attempt, loop_attempt, held, outcomes,
                    slept, response, exception, result, limiterVars >>

\* The transport answers with a status code; leaving throttle() releases the
\* slot.
TransportRespond(status_code) ==
    /\ fpc = "await"
    /\ response' = Some(status_code)
    /\ outcomes' = Append(outcomes, [response |-> Some(status_code), exception |-> None])
    /\ held' = held - 1
    /\ fpc' = "on_response"
    /\ UNCHANGED << configVars, request_attempt, start_attempt, loop_attempt,
                    sends, slept, exception, result, limiterVars >>

\* The transport fails with an exception; leaving throttle() releases the slot.
TransportRaise(exc_type) ==
    /\ fpc = "await"
    /\ exception' = Some(exc_type)
    /\ outcomes' = Append(outcomes, [response |-> None, exception |-> Some(exc_type)])
    /\ held' = held - 1
    /\ fpc' = "on_exception"
    /\ UNCHANGED << configVars, request_attempt, start_attempt, loop_attempt,
                    sends, slept, response, result, limiterVars >>

\* The caller's task is cancelled while the request is in flight:
\* CancelledError passes through "async with throttle()" (the slot goes back)
\* and through the driver's "except Exception".
TransportCancel ==
    /\ fpc = "await"
    /\ held' = held - 1
    /\ result' = CancelledError
    /\ fpc' = "done"
    /\ UNCHANGED << configVars, request_attempt, start_attempt, loop_attempt,
                    sends, outcomes, slept, response, exception, limiterVars >>

\* self.on_cycle_state(request, response=response); return response
\* (a FetchMechanismFailed it raises is re-raised)
CycleOnResponse ==
    /\ fpc = "on_response"
    /\ LET state == OnCycleState(request_attempt, response, None)
       IN  result' = IF state.kind = "return" THEN Returned(response) ELSE state
    /\ fpc' = "done"
    /\ UNCHANGED << configVars, request_attempt, start_attempt, loop_attempt,
                    held, sends, outcomes, slept, response, exception,
                    limiterVars >>

\* CycleOnException that swallows what on_cycle_state raises.
CycleOnException_Swallow ==
    /\ fpc = "on_exception"
    /\ loop_attempt' = loop_attempt + 1
    /\ fpc' = "for"
    /\ UNCHANGED << configVars, request_attempt, start_attempt, held, sends,
                    outcomes, slept, response, exception, result, limiterVars >>

\* except Exception as e: self.on_cycle_state(request, exception=e)
\* What it raises leaves fetch; when it returns, the loop goes on.
CycleOnException ==
    /\ fpc = "on_exception"
    /\ LET state == OnCycleState(request_attempt, None, exception)
       IN  IF state.kind = "return"
           THEN /\ loop_attempt' = loop_attempt + 1
                /\ fpc' = "for"
                /\ UNCHANGED result
           ELSE /\ result' = state
                /\ fpc' = "done"
                /\ UNCHANGED loop_attempt
    /\ UNCHANGED << configVars, request_attempt, start_attempt, held, sends,
                    outcomes, slept, response, exception, limiterVars >>

NextFetch ==
    \/ Fetch
    \/ ForNext
    \/ Throttle
    \/ \E slot_taken \in BOOLEAN : ThrottleCancelled(slot_taken)
    \/ RequestFetch
    \/ \E status_code \in StatusCodes : TransportRespond(status_code)
    \/ \E exc_type \in ExceptionTypes : TransportRaise(exc_type)
    \/ TransportCancel
    \/ CycleOnResponse
    \/ CycleOnException

InitFetchSpec == LimiterAside /\ InitFetch

SpecFetch == InitFetchSpec /\ [][NextFetch]_vars

\* on_cycle_state called on its own: any attempt number, any response and
\* exception, present or not.
InitClassify ==
    /\ InitConfig
    /\ request_attempt \in InitialAttempt..(MaxMaxAttempts + 2)
    /\ start_attempt = request_attempt
    /\ fpc = "on_cycle_state"
    /\ loop_attempt = 0
    /\ held = 0
    /\ sends = 0
    /\ outcomes = << >>
    /\ slept = << >>
    /\ response \in { None } \cup { Some(s) : s \in StatusCodes }
    /\ exception \in { None } \cup { Some(e) : e \in ExceptionTypes }
    /\ result = NoResult

OnCycleStateCall ==
    /\ fpc = "on_cycle_state"
    /\ result' = OnCycleState(request_attempt, response, exception)
    /\ fpc' = "classified"
    /\ UNCHANGED << configVars, request_attempt, start_attempt, loop_attempt,
                    held, sends, outcomes, slept, response, exception,
                    limiterVars >>

NextClassify == OnCycleStateCall

InitClassifySpec == LimiterAside /\ InitClassify

SpecClassify == InitClassifySpec /\ [][NextClassify]_vars

\* No fetch is under observation.
FetchAside ==
    /\ max_attempts = 1
    /\ stop_status_codes = DEFAULT_STOP_STATUS_CODES
    /\ retry_status_codes = DEFAULT_RETRY_STATUS_CODES
    /\ stop_exceptions = DEFAULT_STOP_EXCEPTIONS
    /\ retry_exceptions = DEFAULT_RETRY_EXCEPTIONS
    /\ request_attempt = InitialAttempt
    /\ start_attempt = InitialAttempt
    /\ fpc = "idle"
    /\ loop_attempt = 0
    /\ held = 0
    /\ sends = 0
    /\ outcomes = << >>
    /\ slept = << >>
    /\ response = None
    /\ exception = None
    /\ result = NoResult

InitLimiterSpec == InitLimiter /\ FetchAside

\* The limiter from before its construction to after its close.
NextLifecycle ==
    \/ Construct
    \/ NextLimiter
    \/ ConsumerTaskCancelled
    \/ Close
    \/ DriverClose

InitLifecycleSpec == InitUnbuilt /\ FetchAside

SpecLifecycle == InitLifecycleSpec /\ [][NextLifecycle]_vars

SpecLimiter == InitLimiterSpec /\ [][NextLimiter]_vars

\* ------------------------------------------------------------ properties

\* C1: with concurrency limit C, at most C callers of throttle() are between
\* the yield and the release at the same time, whatever the interleaving.
ConcurrencyLimitHolds == Cardinality(InCritical) <= concurrency_limit

\* More callers than slots are in throttle(), the slots are all in critical
\* sections, and a caller waits for one.
ConcurrencyLimitWitness ==
    /\ Cardinality(InCritical) = concurrency_limit
    /\ Cardinality({ c \in Callers : pc[c] # "idle" }) > concurrency_limit
    /\ \E c \in Callers : pc[c] = "acquire"

\* C2: with rate limit N, no N + 1 token insertions fall within one rolling
\* window of one second.
RateWindowHolds ==
    \A i \in 1..Len(admit_times) :
        (i + rate_limit <= Len(admit_times))
            => admit_times[i + rate_limit] - admit_times[i] >= Second

\* C3: with rate limit R, the K-th of K > R admissions comes at least
\* (K - R) / R seconds, which is K - R eviction intervals, after the first.
BackToBackDuration ==
    \A k \in 1..Len(admit_times) :
        (k > rate_limit)
            => admit_times[k] - admit_times[1] >= (k - rate_limit) * TicksPerInterval

\* A response whose status is retryable: not 2xx, no stop code, a retry code.
RetryableStatus(o) ==
    /\ o.response # None
    /\ o.response[1] \notin 200..299
    /\ o.response[1] \notin stop_status_codes
    /\ o.response[1] \in retry_status_codes

\* A transport error that is retryable: no stop exception, a retry exception.
RetryableException(o) ==
    /\ o.exception # None
    /\ o.exception[1] \notin stop_exceptions
    /\ o.exception[1] \in retry_exceptions

\* C4: fetch returns a response only when its status is in [200, 300), and it
\* does not end on a retryable status while the attempt budget is not used up.
ReturnsOnlySuccess ==
    (fpc = "done") =>
        /\ (result.kind = "return" /\ result.value # None)
               => result.value[1] \in 200..299
        /\ ~ ( /\ outcomes # << >>
               /\ RetryableStatus(outcomes[Len(outcomes)])
               /\ request_attempt <= max_attempts )

\* C5: a fetch of a request whose attempt counter starts at its initial
\* value never sends more than max_attempts times.
SendsWithinBudget ==
    (start_attempt = InitialAttempt) => sends <= max_attempts

\* The whole budget is sent, every attempt ending in a retryable timeout.
SendsWithinBudgetWitness ==
    /\ fpc = "done"
    /\ start_attempt = InitialAttempt
    /\ max_attempts = MaxMaxAttempts
    /\ sends = max_attempts
    /\ \A i \in 1..Len(outcomes) : RetryableException(outcomes[i])

\* C6: when every attempt answers a retryable status, fetch ends by raising
\* FetchMechanismFailed("Maximum attempts reached", status) after exactly
\* max_attempts sends and max_attempts - 1 sleeps.
ExhaustsBudgetOnRetryableStatus ==
    ( /\ fpc = "done"
      /\ start_attempt = InitialAttempt
      /\ outcomes # << >>
      /\ \A i \in 1..Len(outcomes) : RetryableStatus(outcomes[i]) )
    => /\ result.kind = "raise"
       /\ result.error = "FetchMechanismFailed"
       /\ result.message = "Maximum attempts reached"
       /\ result.status = outcomes[Len(outcomes)].response
       /\ sends = max_attempts
       /\ Len(slept) = max_attempts - 1

\* An outcome that is fatal: a stop status, a status that is neither 2xx nor
\* retryable, a stop exception, an exception that is not retryable.
FatalOutcome(o) ==
    \/ /\ o.response # None
       /\ o.response[1] \notin 200..299
       /\ (o.response[1] \in stop_status_codes
             \/ o.response[1] \notin retry_status_codes)
    \/ /\ o.exception # None
       /\ (o.exception[1] \in stop_exceptions
             \/ o.exception[1] \notin retry_exceptions)

FatalReason(o) ==
    IF o.response # None
    THEN IF o.response[1] \in stop_status_codes
         THEN "Stop status codes are hit"
         ELSE "Status code not in retry status codes"
    ELSE IF o.exception[1] \in stop_exceptions
         THEN "Stop exceptions are hit"
         ELSE "Exception type not in retry exceptions"

\* C7: a fatal outcome is the last one: no send and no sleep follows it, and
\* fetch ends by raising FetchMechanismFailed with the reason and the status
\* or the exception.
FatalEndsRequest ==
    \A i \in 1..Len(outcomes) :
        FatalOutcome(outcomes[i]) =>
            /\ i = Len(outcomes)
            /\ sends - i = 0
            /\ slept = << >>
            /\ fpc \in { "on_response", "on_exception", "done" }
            /\ (fpc = "done") =>
                   /\ result.kind = "raise"
                   /\ result.error = "FetchMechanismFailed"
                   /\ result.message = FatalReason(outcomes[i])
                   /\ result.status = outcomes[i].response
                   /\ result.exception = outcomes[i].exception

\* A 404 on attempt 1, under the default rule sets: one send, then the error.
FatalEndsRequestWitness ==
    /\ fpc = "done"
    /\ start_attempt = InitialAttempt
    /\ stop_status_codes = DEFAULT_STOP_STATUS_CODES
    /\ retry_status_codes = DEFAULT_RETRY_STATUS_CODES
    /\ outcomes = << [response |-> Some(404), exception |-> None] >>
    /\ sends = 1
    /\ result = FetchMechanismFailed("Stop status codes are hit", Some(404), None)

\* C8: a retryable timeout on attempt 1 and a 200 on attempt 2: fetch returns
\* the 200 after 2 sends and one sleep of first_sleep_time * exponent ^ 1.
TimeoutThenSuccess ==
    ( /\ fpc = "done"
      /\ start_attempt = InitialAttempt
      /\ max_attempts >= 2
      /\ Len(outcomes) = 2
      /\ outcomes[1].exception = Some("ServerTimeoutError")
      /\ RetryableException(outcomes[1])
      /\ outcomes[2].response = Some(200) )
    => /\ result = Returned(Some(200))
       /\ sends = 2
       /\ slept = << first_sleep_time * exponent ^ 1 >>

\* C9: on_cycle_state raises nothing on a response with a status in 200..299,
\* whatever the attempt number and the rule sets.
SuccessOn2xx ==
    (fpc = "classified" /\ response # None /\ response[1] \in 200..299)
        => result.kind = "return"

\* A 200 that is a stop code and a retry code, past the attempt budget.
SuccessOn2xxWitness ==
    /\ fpc = "classified"
    /\ response = Some(200)
    /\ 200 \in stop_status_codes \cap retry_status_codes
    /\ request_attempt > max_attempts
    /\ result.kind = "return"

\* C10: on_cycle_state raises "Stop status codes are hit" on a non-2xx status
\* that is a stop code, also when it is a retry code too, whatever the
\* attempt number.
StopBeforeRetry ==
    ( /\ fpc = "classified"
      /\ response # None
      /\ response[1] \notin 200..299
      /\ response[1] \in stop_status_codes )
    => /\ result.kind = "raise"
       /\ result.error = "FetchMechanismFailed"
       /\ result.message = "Stop status codes are hit"
       /\ result.status = response

\* A 503 that is a stop code and a retry code, past the attempt budget.
StopBeforeRetryWitness ==
    /\ fpc = "classified"
    /\ response = Some(503)
    /\ 503 \in stop_status_codes \cap retry_status_codes
    /\ request_attempt > max_attempts
    /\ result.message = "Stop status codes are hit"

\* C11: on a fresh request the delay get_sleep_time computes after the n-th
\* send is first_sleep_time * exponent ^ n when that send ended in a
\* ServerTimeoutError, and first_sleep_time after any other outcome.
BackoffDelay ==
    ( /\ fpc \in {"on_response", "on_exception"}
      /\ start_attempt = InitialAttempt )
    => LET o == outcomes[Len(outcomes)]
       IN  GetSleepTime(request_attempt, o.exception)
             = IF o.exception = Some("ServerTimeoutError")
               THEN first_sleep_time * exponent ^ sends
               ELSE first_sleep_time

\* C12: on_cycle_state on a retryable outcome of a request whose attempt
\* counter is beyond max_attempts raises
\* FetchMechanismFailed("Maximum attempts reached") carrying the status of the
\* response, if there is one, and the exception, if there is one.
MaximumAttemptsReached ==
    ( /\ fpc = "classified"
      /\ request_attempt > max_attempts
      /\ response # None \/ exception # None
      /\ response # None =>
             RetryableStatus([response |-> response, exception |-> exception])
      /\ exception # None =>
             RetryableException([response |-> response, exception |-> exception]) )
    => result = FetchMechanismFailed("Maximum attempts reached",
                                     response, exception)

\* C13: when the attempt loop of fetch runs out, fetch raises
\* FetchMechanismFailed("Maximum attempts reached"); it does not return.
LoopEndRaises ==
    (fpc = "done" /\ loop_attempt >= RangeStop)
    => /\ result.kind = "raise"
       /\ result.error = "FetchMechanismFailed"
       /\ result.message = "Maximum attempts reached"

\* C14: fetch ends by returning, by raising FetchMechanismFailed or by the
\* caller's cancellation; no other kind of error leaves it.
OnlyFetchFailedLeaves ==
    (fpc = "done") =>
        \/ result.kind = "return"
        \/ result.error \in {"FetchMechanismFailed", "CancelledError"}

\* The callers that hold a slot of the semaphore.
SlotHolders == { c \in Callers : pc[c] \in {"add_token", "critical"} }

\* C15: whatever callers were cancelled at, waiting for a slot, waiting to
\* put their token or inside the critical section, no slot is lost: the free
\* slots and the slots of the callers still in throttle() add up to the
\* concurrency limit.
SlotsConserved ==
    semaphore + Cardinality(SlotHolders) = concurrency_limit

\* C16: a caller that leaves the critical section, by return or by raise,
\* gives back exactly one slot and leaves the token queue as it is; the queue
\* gets shorter only in steps of the eviction task, in which no caller moves.
ExitReleasesOneSlot ==
    [][ /\ \A c \in Callers :
             (pc[c] = "critical" /\ pc'[c] # "critical")
             => (semaphore' = semaphore + 1 /\ tokens_queue' = tokens_queue)
        /\ Len(tokens_queue') < Len(tokens_queue) => pc' = pc ]_vars

\* Every caller admitted so far has left the critical section, every slot is
\* free again and every token is still in the queue.
ExitReleasesOneSlotWitness ==
    /\ admit_times # << >>
    /\ SlotHolders = {}
    /\ semaphore = concurrency_limit
    /\ Len(tokens_queue) = Len(admit_times)

\* C17: no call of the limiter's close() raises, the first one included and
\* the second one included; once close() has been called the eviction task
\* is cancelled, stays cancelled and takes no further turn; close() on a
\* task that was cancelled before raises nothing either.
CloseTwiceIsSafe ==
    /\ [](~close_raised /\ (close_calls > 0 => consumer_task = "cancelled"))
    /\ [][ consumer_task = "cancelled"
            => /\ consumer_task' = "cancelled"
               /\ Len(tokens_queue') >= Len(tokens_queue)
               /\ last_consumption_time' = last_consumption_time
               /\ wake_at' = wake_at ]_vars

\* close() was called twice on a limiter with tokens in its queue, and time
\* has passed beyond the eviction task's next wake.
CloseTwiceIsSafeWitness ==
    /\ close_calls = 2
    /\ ~close_raised
    /\ consumer_task = "cancelled"
    /\ tokens_queue # << >>
    /\ now > wake_at

\* C18: a limiter built with a rate limit or a concurrency limit below 1 does
\* not come to be: the only thing __init__ ever raises is ValueError, it
\* raises it exactly on such limits, and then no eviction task was started
\* and no caller can enter.
ConstructionRejects ==
    LET invalid == rate_limit < MinLimit \/ concurrency_limit < MinLimit
    IN  /\ invalid => (consumer_task = "none" /\ \A c \in Callers : pc[c] = "none")
        /\ init_error # None => (invalid /\ init_error = Some("ValueError"))
        /\ consumer_task # "none" => init_error = None

\* The constructor has refused a concurrency limit of 0 that came with a good
\* rate limit.
ConstructionRejectsWitness ==
    /\ rate_limit >= MinLimit
    /\ concurrency_limit = MinLimit - 1
    /\ init_error = Some("ValueError")
    /\ consumer_task = "none"

\* C19: each call of the driver's close() closes the session once and calls
\* the limiter's close() once, after which the eviction task is cancelled;
\* none of these calls raises, the second included.
DriverCloseClosesBoth ==
    /\ [](~close_raised /\ session_close_calls = driver_close_calls)
    /\ [][ driver_close_calls' # driver_close_calls
            => /\ driver_close_calls' = driver_close_calls + 1
               /\ session_close_calls' = session_close_calls + 1
               /\ close_calls' = close_calls + 1
               /\ consumer_task' = "cancelled" ]_vars

\* The driver was closed twice while a caller was inside the critical
\* section.
DriverCloseClosesBothWitness ==
    /\ driver_close_calls = 2
    /\ session_close_calls = 2
    /\ close_calls = 2
    /\ ~close_raised
    /\ InCritical # {}

\* C20: a turn of the eviction task that finds the queue non-empty takes
\* min(queue size, floor((now - last_consumption_time) / (1 / rate_limit)))
\* tokens out of it and sets last_consumption_time to now, also when it takes
\* none.
EvictionAmount ==
    [][ (wake_at' # wake_at /\ tokens_queue # << >>)
        => /\ Len(tokens_queue) - Len(tokens_queue')
                = Min(Len(tokens_queue),
                      (now - last_consumption_time) \div consumption_rate)
           /\ \E k \in 0..Len(tokens_queue) :
                tokens_queue' = SubSeq(tokens_queue, k + 1, Len(tokens_queue))
           /\ last_consumption_time' = now ]_vars

\* The eviction task has just taken a turn on a non-empty queue: it took
\* some tokens and left some.
EvictionAmountWitness ==
    /\ last_consumption_time = now
    /\ wake_at = now + consumption_rate
    /\ tokens_queue # << >>
    /\ Len(tokens_queue) < Len(admit_times)

\* The time of the eviction task's latest turn, once it has taken one.
LastWake == wake_at - consumption_rate

\* C21: a turn of the eviction task on an empty queue changes neither the
\* queue nor last_consumption_time and sleeps one interval; and the turn on a
\* non-empty queue that follows such a turn takes no more tokens than one per
\* interval since that turn, which is the longest the tokens can have been in
\* the queue.
IdleGapNoBurst ==
    [][ wake_at' # wake_at
        => IF tokens_queue = << >>
           THEN /\ tokens_queue' = << >>
                /\ last_consumption_time' = last_consumption_time
                /\ wake_at' = now + consumption_rate
           ELSE (wake_at > start_time /\ LastWake > last_consumption_time)
                => Len(tokens_queue) - Len(tokens_queue')
                     <= (now - LastWake) \div consumption_rate ]_vars

\* C22: the attempt counter of a new request starts at InitialAttempt; it
\* goes up by one with every send, whatever the send ends in, and changes at
\* no other time; every send but the one in flight, or cancelled in flight,
\* has an outcome; and a send goes out only when every earlier send has one
\* and the latest outcome was classified as one to retry.
AttemptsSequential ==
    /\ [] /\ start_attempt >= InitialAttempt
          /\ request_attempt = start_attempt + sends
          /\ sends - Len(outcomes) \in {0, 1}
          /\ sends # Len(outcomes)
               <=> (fpc = "await" \/ (fpc = "done" /\ sends # Len(outcomes)))
          /\ (fpc = "done" /\ sends # Len(outcomes)) => result = CancelledError
    /\ [][ /\ request_attempt' >= request_attempt
           /\ (request_attempt' # request_attempt) <=> (sends' = sends + 1)
           /\ sends' # sends
                => /\ sends' = sends + 1
                   /\ request_attempt' = request_attempt + 1
                   /\ Len(outcomes) = sends
                   /\ outcomes # << >>
                        => /\ RetryableException(outcomes[Len(outcomes)])
                           /\ OnCycleState(request_attempt, None,
                                  outcomes[Len(outcomes)].exception).kind = "return"
         ]_vars

\* A new request was sent three times; every send failed with a transport
\* error and was counted.
AttemptsSequentialWitness ==
    /\ start_attempt = InitialAttempt
    /\ sends = 3
    /\ request_attempt = InitialAttempt + 3
    /\ Len(outcomes) = 3
    /\ \A i \in 1..3 : outcomes[i].exception # None

\* C23: no caller of throttle() is left waiting for good: while a caller
\* waits for a slot that is not free, a caller that is still in throttle()
\* holds one and will give it back.
AdmissionStaysPossible ==
    \A c \in Callers :
        (pc[c] = "acquire" /\ semaphore = 0) => SlotHolders # {}

\* C24: a fetch holds a concurrency slot only from its admission by
\* throttle() to the end of the one send made under it: it holds none while
\* the outcome is classified, at the head of the loop, or once it has
\* returned or raised; and under each slot the transport is contacted once.
SlotOnlyWhileSending ==
    /\ held = IF fpc \in {"request", "await"} THEN 1 ELSE 0
    /\ fpc = "request" => sends = Len(outcomes)
    /\ fpc = "await" => sends = Len(outcomes) + 1

\* C25: the token queue never holds more than rate_limit tokens, and the
\* eviction task never ends with an exception: it never takes a token from
\* an empty queue.
QueueBoundedTaskAlive ==
    /\ Len(tokens_queue) \in 0..rate_limit
    /\ consumer_task # "failed"

\* With rate limit 1 and a clock that read one second at construction, the
\* only token ever inserted was taken out in a turn at a time of two
\* intervals or more: the quotient was above the size of the queue and the
\* task is still running.
QueueBoundedTaskAliveWitness ==
    /\ rate_limit = 1
    /\ start_time = Second
    /\ Len(admit_times) = 1
    /\ tokens_queue = << >>
    /\ last_consumption_time = now
    /\ now >= 2 * consumption_rate
    /\ consumer_task = "running"

\* C26: a caller waiting to put its token has taken a slot already: the
\* callers waiting to put a token and the callers inside the critical
\* section are never more than the concurrency limit, and the free slots
\* are never more than the limit less these callers.
TokenWaitersHoldSlots ==
    /\ Cardinality(SlotHolders) <= concurrency_limit
    /\ semaphore >= 0
    /\ semaphore <= concurrency_limit - Cardinality(SlotHolders)

\* A caller waits for a slot while no critical section is running: every
\* slot is held by a caller that waits on the full queue.
TokenWaitersHoldSlotsWitness ==
    /\ \E c \in Callers : pc[c] = "acquire"
    /\ semaphore = 0
    /\ InCritical = {}
    /\ Cardinality(SlotHolders) = concurrency_limit
    /\ Len(tokens_queue) = rate_limit

\* Insertions made since close() was first called.
InsertionsSinceClose == Len(admit_times) - closed_at[1].insertions

\* C27: once close() has been called the eviction task is cancelled and the
\* queue only grows: the insertions made since are the tokens added to those
\* queued at the call, at most rate_limit less that number.  A call of
\* close() moves no caller, frees no slot and touches no token, and a caller
\* that waits to put its token on the full queue stays there, or is
\* cancelled, with its slot taken.
NoEvictionAfterClose ==
    /\ [] ( closed_at # None
            => /\ consumer_task = "cancelled"
               /\ Len(tokens_queue) = closed_at[1].tokens + InsertionsSinceClose
               /\ InsertionsSinceClose <= rate_limit - closed_at[1].tokens )
    /\ [][ /\ close_calls' # close_calls
                => /\ pc' = pc
                   /\ semaphore' = semaphore
                   /\ tokens_queue' = tokens_queue
           /\ \A c \in Callers :
                ( /\ closed_at # None
                  /\ pc[c] = "add_token"
                  /\ Len(tokens_queue) = rate_limit )
                => /\ pc'[c] \in {"add_token", "idle"}
                   /\ semaphore' <= semaphore
         ]_vars

\* After close() as many callers were admitted as the queue had room for at
\* the call; the next caller holds a slot and waits on the full queue, past
\* the time the eviction task would have woken.
NoEvictionAfterCloseWitness ==
    /\ closed_at # None
    /\ InsertionsSinceClose > 0
    /\ InsertionsSinceClose = rate_limit - closed_at[1].tokens
    /\ \E c \in Callers : pc[c] = "add_token"
    /\ now > wake_at

\* C28: when the clock reads one second or more at construction, a turn of
\* the eviction task on a non-empty queue from which no token was taken yet
\* empties the queue, however late the tokens were inserted, and records the
\* time.
FirstEvictionTakesAll ==
    [][ ( /\ wake_at' # wake_at
          /\ tokens_queue # << >>
          /\ Len(admit_times) = Len(tokens_queue)
          /\ start_time >= Second )
        => /\ tokens_queue' = << >>
           /\ last_consumption_time' = now ]_vars

\* With rate limit 2 and a clock that read one second at construction, two
\* tokens inserted at the same instant were both taken at that instant.
FirstEvictionTakesAllWitness ==
    /\ rate_limit = 2
    /\ start_time = Second
    /\ Len(admit_times) = 2
    /\ admit_times[1] = now
    /\ admit_times[2] = now
    /\ tokens_queue = << >>
    /\ last_consumption_time = now

====
